---- MODULE Spec2Model ----
(***************************************************************************)
(* Model of anime_sama_api/catalogue.py: the Catalogue entity, its lazily  *)
(* fetched page (page, seasons, advancement, correspondence, synopsis) and *)
(* its lazily resolved name (get_name_with_year), run by asyncio tasks     *)
(* that interleave at the await points of the code.                        *)
(*                                                                         *)
(* Python values are tagged records: None, str (a sequence of one-char     *)
(* strings, or of page tokens for a page body), int, list.                 *)
(*                                                                         *)
(* Spec interleaves the calls of two tasks; SeqSpec is one task whose      *)
(* calls do not overlap, with every answer of the metadata source.         *)
(***************************************************************************)
EXTENDS Naturals, Sequences, FiniteSets

(***************************************************************************)
(* Python values                                                           *)
(***************************************************************************)
PyNone == [t |-> "none"]

PyStr(s) == [t |-> "str", v |-> s]

PyInt(n) == [t |-> "int", v |-> n]

PyList(l) == [t |-> "list", v |-> l]

\* Python truthiness of None, a str or an int.
Truthy(x) ==
    CASE x.t = "none" -> FALSE
      [] x.t = "str"  -> x.v # <<>>
      [] x.t = "int"  -> x.v # 0
      [] OTHER        -> TRUE

\* a or b
PyOr(a, b) == IF Truthy(a) THEN a ELSE b

(***************************************************************************)
(* Strings                                                                 *)
(***************************************************************************)
Digit(d) == <<"0", "1", "2", "3", "4", "5", "6", "7", "8", "9">>[d + 1]

RECURSIVE IntToStr(_)
\* str(n) of a non-negative int
IntToStr(n) == IF n < 10 THEN <<Digit(n)>> ELSE IntToStr(n \div 10) \o <<Digit(n % 10)>>

\* str(x), as an f-string formats x
Format(x) ==
    CASE x.t = "none" -> <<"N", "o", "n", "e">>
      [] x.t = "str"  -> x.v
      [] x.t = "int"  -> IntToStr(x.v)

\* s[:n]
Take(s, n) == SubSeq(s, 1, IF n < Len(s) THEN n ELSE Len(s))

RECURSIVE Split(_, _)
\* s.split(sep) for a one-character separator
Split(s, sep) ==
    IF \A i \in 1..Len(s) : s[i] # sep
    THEN <<s>>
    ELSE LET i == CHOOSE j \in 1..Len(s) : s[j] = sep /\ \A k \in 1..(j - 1) : s[k] # sep
         IN  <<SubSeq(s, 1, i - 1)>> \o Split(SubSeq(s, i + 1, Len(s)), sep)

RECURSIVE Join(_, _)
\* sep.join(parts)
Join(parts, sep) ==
    IF parts = <<>> THEN <<>>
    ELSE IF Len(parts) = 1 THEN parts[1]
    ELSE parts[1] \o <<sep>> \o Join(Tail(parts), sep)

\* s.replace(a, b) for one-character a and b
Replace(s, a, b) == [i \in 1..Len(s) |-> IF s[i] = a THEN b ELSE s[i]]

UpperChars == {"A", "B", "N", "O", "P", "X", "Z"}

LowerOf(c) ==
    CASE c = "A" -> "a" [] c = "B" -> "b" [] c = "N" -> "n" [] c = "O" -> "o"
      [] c = "P" -> "p" [] c = "X" -> "x" [] c = "Z" -> "z" [] OTHER -> c

\* s.lower()
Lower(s) == [i \in 1..Len(s) |-> LowerOf(s[i])]

\* \s of the re module
IsSpace(c) == c \in {" ", "\t", "\n"}

\* \w of the re module: letters, digits and the underscore
IsWord(c) ==
    c \in UpperChars \cup {"a", "b", "n", "o", "p", "x", "z", "_"}
          \cup {"0", "1", "2", "3", "4", "5", "6", "7", "8", "9"}

RECURSIVE LStrip(_)
LStrip(s) == IF s # <<>> /\ IsSpace(s[1]) THEN LStrip(Tail(s)) ELSE s

RECURSIVE RStrip(_)
RStrip(s) ==
    IF s # <<>> /\ IsSpace(s[Len(s)]) THEN RStrip(SubSeq(s, 1, Len(s) - 1)) ELSE s

\* s.strip()
Strip(s) == LStrip(RStrip(s))

\* a in b, for strings
IsSubstring(a, b) ==
    \E i \in 0..(Len(b) - Len(a)) : SubSeq(b, i + 1, i + Len(a)) = a

\* a character that [^\w\s] does not match
KeptByNormalize(c) == IsWord(c) \/ IsSpace(c)

RECURSIVE RemoveSpecial(_)
\* re.sub(r'[^\w\s]', '', s)
RemoveSpecial(s) ==
    IF s = <<>> THEN <<>>
    ELSE (IF KeptByNormalize(s[1]) THEN <<s[1]>> ELSE <<>>) \o RemoveSpecial(Tail(s))

\* the inner normalize(title) of _titles_match
normalize(title) == RemoveSpecial(Strip(Lower(title)))

\* _titles_match without the test of line 173: an absent title is compared
\* as the empty string.
TitlesMatchUnguarded(search_title, api_title) ==
    LET normalized_search == normalize(search_title)
        normalized_api == normalize(IF api_title.t = "str" THEN api_title.v ELSE <<>>)
    IN  \/ normalized_search = normalized_api
        \/ IsSubstring(normalized_search, normalized_api)
        \/ IsSubstring(normalized_api, normalized_search)

\* Catalogue._titles_match(search_title, api_title); api_title is what
\* anime.get(...) gave: None or a str.
_titles_match(search_title, api_title) ==
    IF ~Truthy(api_title) THEN FALSE
    ELSE LET normalized_search == normalize(search_title)
             normalized_api == normalize(api_title.v)
         IN  \/ normalized_search = normalized_api
             \/ IsSubstring(normalized_search, normalized_api)
             \/ IsSubstring(normalized_api, normalized_search)

(***************************************************************************)
(* The entity                                                              *)
(***************************************************************************)
\* __init__ appending the separator to every URL.
CatalogueAppending(url, name, alternative_names) ==
    LET parts == Split(url, "/")
        base_name == PyOr(PyStr(name), PyStr(parts[Len(parts) - 1])).v
    IN  [url               |-> url \o <<"/">>,
         site_url          |-> Join(Take(parts, 3), "/") \o <<"/">>,
         name              |-> IF alternative_names # <<>>
                               THEN alternative_names[1] ELSE base_name,
         raw_name          |-> base_name,
         alternative_names |-> alternative_names]

\* Catalogue.__init__(url, name, alternative_names): the fields the
\* operations below read. url is a non-empty str.
Catalogue(url, name, alternative_names) ==
    LET parts == Split(url, "/")
        base_name == PyOr(PyStr(name), PyStr(parts[Len(parts) - 1])).v
    IN  [url               |-> IF url[Len(url)] # "/" THEN url \o <<"/">> ELSE url,
         site_url          |-> Join(Take(parts, 3), "/") \o <<"/">>,
         name              |-> IF alternative_names # <<>>
                               THEN alternative_names[1] ELSE base_name,
         raw_name          |-> base_name,
         alternative_names |-> alternative_names]

UrlSlash == <<"h", ":", "/", "/", "s", "/", "c", "/", "o", "p", "/">>

UrlNoSlash == <<"h", ":", "/", "/", "s", "/", "c", "/", "o", "p">>

\* The arguments of a construction.
Args(url, name, alternative_names) ==
    [url |-> url, name |-> name, alternative_names |-> alternative_names]

\* Catalogue(**a)
Construct(a) == Catalogue(a.url, a.name, a.alternative_names)

\* The constructions the operations are run on: slug-named, with alternate
\* names, explicitly named and from a URL without the slash.
EntityArgs ==
    { Args(UrlSlash, <<>>, <<>>),
      Args(UrlSlash, <<>>, << <<"O", "P", "!">>, <<"x">> >>),
      Args(UrlNoSlash, <<"O", "p">>, << <<"x", " ", "z">> >>) }

\* The entities the behaviours start from.
Entities == {Construct(a) : a \in EntityArgs}

\* Catalogue.__eq__ comparing the names as well.
EqByUrlAndName(this, value) ==
    IF value.t # "Catalogue" THEN FALSE
    ELSE this.url = value.v.url /\ this.name = value.v.name

\* An entity with its two caches as a Python value, beside None and str.
PyCatalogue(entity, page, name_with_year) ==
    [t |-> "Catalogue", v |-> entity, page |-> page, name_with_year |-> name_with_year]

\* Catalogue.__eq__(self, value)
__eq__(this, value) ==
    IF value.t # "Catalogue" THEN FALSE
    ELSE this.url = value.v.url

(***************************************************************************)
(* The entity's page                                                       *)
(*                                                                         *)
(* A page body is a sequence of tokens, each on a line of its own: a       *)
(* declaration panneauAnime("name", "arg");, a labelled field, and the two *)
(* delimiters of a script comment.                                         *)
(***************************************************************************)
Decl(name, arg) == [k |-> "decl", name |-> name, arg |-> arg]

Field(label, value) == [k |-> "field", label |-> label, value |-> value]

CommentOpen == [k |-> "open"]

CommentClose == [k |-> "close"]

Vostfr == <<"v", "o", "s", "t", "f", "r">>

Vf == <<"v", "f">>

Link1 == <<"s", "1", "/">>

Link2 == <<"s", "2", "/">>

\* A link that ends with the letters of a marker.
LinkVf == <<"o", "v", "f">>

\* What a successful GET of the entity's URL may carry.
OkBodies ==
    { <<>>,
      << Decl("Saison 1", Link1 \o Vostfr), Decl("Bonus", Link2 \o <<"v", "a">>),
         Decl("Film", LinkVf \o Vf), Decl("Vide", Vf),
         Field("Avancement", "12/12"), Field("Synopsis", "texte") >>,
      << CommentOpen, Decl("Saison 0", Link2 \o Vf), Field("Avancement", "avant"),
         Field("Synopsis", "ancien"), CommentClose,
         Decl("Saison 1", Link1 \o Vostfr), Decl("Saison 2", Link2 \o Vf),
         Field("Avancement", "apres"), Field("Correspondance", "tome 3") >> }

\* What a non-success response may carry as its text.
ErrorBodies ==
    { <<>>,
      << Field("Avancement", "404"), Decl("Saison 1", Link1 \o Vf) >> }

\* The outcomes of client.get(self.url): a response, or an exception of the
\* transport.
GetOutcomes ==
    [kind : {"response"}, is_success : {TRUE}, text : OkBodies]
    \cup [kind : {"response"}, is_success : {FALSE}, text : ErrorBodies]
    \cup {[kind |-> "raise"]}

\* page() with the text of every response cached, whatever its status.
PageOfResponseAnyStatus(response) == PyStr(response.text)

\* Lines 65-68 of page(): what the response leaves in self._page.
PageOfResponse(response) ==
    IF ~response.is_success THEN PyStr(<<>>) ELSE PyStr(response.text)

\* page() without the test of its cache.
PageIsNeverCached(p) == FALSE

\* page() returns the cache when it is set (line 60).
PageIsCached(p) == p # PyNone

RECURSIVE StripFrom(_, _)
\* The tokens of text from position i on, outside comments: a comment
\* runs from its opening delimiter to the first closing one after it.
StripFrom(text, i) ==
    IF i > Len(text) THEN <<>>
    ELSE IF text[i].k = "open" /\ \E j \in (i + 1)..Len(text) : text[j].k = "close"
    THEN LET j == CHOOSE c \in (i + 1)..Len(text) :
                      /\ text[c].k = "close"
                      /\ \A d \in (i + 1)..(c - 1) : text[d].k # "close"
         IN  StripFrom(text, j + 1)
    ELSE <<text[i]>> \o StripFrom(text, i + 1)

\* utils.remove_some_js_comments(string)
remove_some_js_comments(string) == StripFrom(string, 1)

\* The lengths of the non-empty prefixes of arg that (?:vostfr|vf)"
\* follows: where group 2 of the pattern of line 76 may end.
LinkEnds(arg) ==
    {n \in 1..(Len(arg) - 1) : SubSeq(arg, n + 1, Len(arg)) \in {Vostfr, Vf}}

\* Group 2 keeping the marker: the whole argument captured.
LinkOfWithMarker(arg) == arg

\* Group 2, the lazy (.+?), of a declaration the pattern matches.
LinkOf(arg) == Take(arg, CHOOSE n \in LinkEnds(arg) : \A m \in LinkEnds(arg) : n <= m)

RECURSIVE FindSeasons(_)
\* re.findall(r'panneauAnime\("(.+?)", *"(.+?)(?:vostfr|vf)"\);', text):
\* the (name, link) pairs in document order.
FindSeasons(text) ==
    IF text = <<>> THEN <<>>
    ELSE (IF text[1].k = "decl" /\ LinkEnds(text[1].arg) # {}
          THEN << <<text[1].name, LinkOf(text[1].arg)>> >> ELSE <<>>)
         \o FindSeasons(Tail(text))

RECURSIVE FindField(_, _)
\* re.findall(label + r".+?>(.+?)<", text): the captured values in order.
FindField(label, text) ==
    IF text = <<>> THEN <<>>
    ELSE (IF text[1].k = "field" /\ text[1].label = label
          THEN <<text[1].value>> ELSE <<>>)
         \o FindField(label, Tail(text))

\* The single-capture operations reading the cleaned body, as seasons()
\* does.
SingleCaptureCleaned(label, page_text) ==
    LET search == FindField(label, remove_some_js_comments(page_text))
    IN  IF search = <<>> THEN PyStr(<<>>) ELSE PyStr(search[1])

\* advancement(), correspondence(), synopsis() on the page body they were
\* given: the first capture, or "".
SingleCapture(label, page_text) ==
    LET search == FindField(label, page_text)
    IN  IF search = <<>> THEN PyStr(<<>>) ELSE PyStr(search[1])

\* Lines 80-88 of seasons(): one Season per (name, link) pair.
BuildSeasons(self, found, full) ==
    PyList([i \in 1..Len(found) |->
               [url |-> self.url \o found[i][2], name |-> found[i][1],
                serie_name |-> full]])

\* The text seasons() scans (line 73).
SeasonsInput(page_text) == remove_some_js_comments(page_text)

LabelOf(op) ==
    CASE op = "advancement"    -> "Avancement"
      [] op = "correspondence" -> "Correspondance"
      [] op = "synopsis"       -> "Synopsis"

(***************************************************************************)
(* The metadata source                                                     *)
(*                                                                         *)
(* A record of the answer holds what the anime.get(...) calls of lines     *)
(* 141-153 give: None or a str for the three titles, None or an int for    *)
(* the year, None or a str for aired.from.                                 *)
(***************************************************************************)
Anime(title, english, japanese, year, aired_from) ==
    [title |-> title, title_english |-> english, title_japanese |-> japanese,
     year |-> year, aired_from |-> aired_from]

RecordPool ==
    { Anime(PyStr(<<"O", "p">>), PyNone, PyNone, PyInt(2002),
            PyStr(<<"2", "0", "0", "1", "-", "1", "0">>)),
      Anime(PyNone, PyStr(<<"X">>), PyNone, PyNone, PyNone),
      Anime(PyStr(<<"x", " ", "z", "!">>), PyStr(<<>>), PyNone, PyNone,
            PyStr(<<"1", "9", "9", "9", "-", "0", "4">>)) }

\* limit=3 of the query (line 131)
Limit == 3

\* The answers of up to Limit distinct records.
RecordLists ==
    { l \in UNION { [1..n -> RecordPool] : n \in 0..Limit } :
        \A a, b \in 1..Len(l) : a # b => l[a] # l[b] }

\* The outcomes of one query: session.get raises; a status other than 200;
\* status 200 with a payload whose handling raises (invalid JSON, a body or
\* a record that is no object); status 200 with data.get("data", []).
QueryOutcomes ==
    {[kind |-> "raise"], [kind |-> "status"], [kind |-> "malformed"]}
    \cup [kind : {"records"}, animes : RecordLists]

NoResp == [kind |-> "none"]

\* Line 126: [self.name] + (self.alternative_names or [])
names_to_try(self) == <<self.name>> \o self.alternative_names

\* Line 130: the q= parameter of the query
QueryOf(name_to_search) == Replace(name_to_search, " ", "+")

\* Lines 146-148
AnimeMatches(name_to_search, anime) ==
    \/ _titles_match(name_to_search, anime.title)
    \/ _titles_match(name_to_search, anime.title_english)
    \/ _titles_match(name_to_search, anime.title_japanese)

\* Lines 150-159 reading the start date before the year field.
NameFromAnimeAiredFirst(anime) ==
    LET title == anime.title
        year == PyOr(IF Truthy(anime.aired_from)
                     THEN PyStr(Take(anime.aired_from.v, 4)) ELSE PyStr(<<>>),
                     anime.year)
    IN  IF Truthy(year)
        THEN PyStr(Format(title) \o <<" ", "(">> \o Format(year) \o <<")">>)
        ELSE title

\* Lines 150-159: the name built from a matching record.
NameFromAnime(anime) ==
    LET title == anime.title
        year == PyOr(anime.year,
                     IF Truthy(anime.aired_from)
                     THEN PyStr(Take(anime.aired_from.v, 4)) ELSE PyStr(<<>>))
    IN  IF Truthy(year)
        THEN PyStr(Format(title) \o <<" ", "(">> \o Format(year) \o <<")">>)
        ELSE title

RECURSIVE ScanFrom(_, _, _)
\* The loop of line 140 from record j on: the position of the record it
\* returns on, or 0 when it runs to the end.
ScanFrom(name_to_search, animes, j) ==
    IF j > Len(animes) THEN 0
    ELSE IF AnimeMatches(name_to_search, animes[j]) THEN j
    ELSE ScanFrom(name_to_search, animes, j + 1)

RECURSIVE ScanBackFrom(_, _, _)
ScanBackFrom(name_to_search, animes, j) ==
    IF j = 0 THEN 0
    ELSE IF AnimeMatches(name_to_search, animes[j]) THEN j
    ELSE ScanBackFrom(name_to_search, animes, j - 1)

\* The loop of line 140 keeping the last matching record instead of
\* returning on the first.
ScanAnimesLast(name_to_search, animes) ==
    ScanBackFrom(name_to_search, animes, Len(animes))

\* The record the loop of line 140 returns on (0: none).
ScanAnimes(name_to_search, animes) == ScanFrom(name_to_search, animes, 1)

\* Whether the handling of an answer leaves the loop of line 128 by the
\* return of line 161; every other answer goes on with the loop (the
\* continue of line 164, or the end of the loop body).
AnswerReturns(name_to_search, resp) ==
    resp.kind = "records" /\ ScanAnimes(name_to_search, resp.animes) # 0

\* Line 167: the name cached when the loop ends without a return.
FallbackName(self) == PyStr(self.name)

(***************************************************************************)
(* The state                                                               *)
(***************************************************************************)
\* The calls started in one behaviour.
MaxCalls == 3

\* The asyncio tasks that call the entity's coroutines.
Tasks == {1, 2}

PageOps == {"page", "seasons", "advancement", "correspondence", "synopsis"}

Ops == PageOps \cup {"get_name_with_year"}

VARIABLES
    self,             \* the entity, as __init__ left it
    _page,            \* self._page
    _name_with_year,  \* self._name_with_year
    task,             \* each task's call: the coroutine's position and locals
    calls,            \* the calls started so far
    gets,             \* the GETs of self.url issued so far, each with its outcome
    nQuery,           \* the queries sent to the metadata source so far
    firstName,        \* the first get_name_with_year() that returned
    given,            \* the arguments self and the other entity were constructed with
    peer,             \* another entity, with its two caches
    matching          \* a record of the metadata source being compared with a name

vars ==
    <<self, _page, _name_with_year, task, calls, gets, nQuery, firstName, given, peer,
      matching>>

\* No comparison is going on.
NotMatching ==
    [name_to_search |-> <<>>, anime |-> Anime(PyNone, PyNone, PyNone, PyNone, PyNone),
     i |-> 1, done |-> TRUE, result |-> FALSE]

\* Another entity of the process, its page fetched and its name resolved.
PeerArgs == Args(<<"h", ":", "/", "/", "s", "/", "c", "/", "x", "/">>, <<>>, <<>>)

CachedPeer ==
    [entity |-> Construct(PeerArgs), page |-> PyStr(<<Field("Synopsis", "autre")>>),
     name_with_year |-> PyStr(<<"x">>)]

\* A task that runs no call. op, pc, i (the loop's position in
\* names_to_try), resp (the answer in hand), found (the findall of
\* seasons()), full (what get_name_with_year() returned), ret and raised
\* (how the call ended) are the coroutine's; queried, errs and matched
\* record what the resolution of this call has sent and seen.
Idle ==
    [op |-> "none", pc |-> "idle", i |-> 0, resp |-> NoResp, found |-> <<>>,
     full |-> PyNone, ret |-> PyNone, raised |-> FALSE,
     queried |-> <<>>, errs |-> 0, matched |-> FALSE]

Active(tk) == tk.pc \notin {"idle", "done"}

\* The call ends with a return value.
Returned(tk, value) ==
    [tk EXCEPT !.pc = "done", !.ret = value, !.i = 0, !.resp = NoResp, !.found = <<>>]

\* The call ends with an exception.
Raised(tk) ==
    [tk EXCEPT !.pc = "done", !.raised = TRUE, !.i = 0, !.resp = NoResp, !.found = <<>>]

\* get_name_with_year() returns full to its caller: to the task, or to
\* line 78 of seasons(), which builds its list and returns.
NameReturns(tk, full) ==
    Returned([tk EXCEPT !.full = full],
             IF tk.op = "seasons" THEN BuildSeasons(self, tk.found, full) ELSE full)

\* Lines 130-134 for candidate i: the query is sent and the task suspends.
SendQuery(tk, i) ==
    [tk EXCEPT !.pc = "await_query", !.i = i, !.resp = NoResp,
               !.queried = Append(@, QueryOf(names_to_try(self)[i]))]

\* The resolved name is cached (line 122).
NameIsCached(n) == n # PyNone

\* get_name_with_year() up to its first await.
EnterName(tk) ==
    IF NameIsCached(_name_with_year)
    THEN NameReturns(tk, _name_with_year)
    ELSE SendQuery(tk, 1)

\* The single-capture operations resolving the name as seasons() does.
AfterPageResolving(tk, page_text) ==
    CASE tk.op = "page" -> Returned(tk, PyStr(page_text))
      [] tk.op \in {"advancement", "correspondence", "synopsis"} ->
            EnterName(tk)
      [] tk.op = "seasons" ->
            EnterName([tk EXCEPT !.found = FindSeasons(SeasonsInput(page_text))])

\* What follows `await self.page()` in each operation, page_text being
\* what page() returned.
AfterPage(tk, page_text) ==
    CASE tk.op = "page" -> Returned(tk, PyStr(page_text))
      [] tk.op \in {"advancement", "correspondence", "synopsis"} ->
            Returned(tk, SingleCapture(LabelOf(tk.op), page_text))
      [] tk.op = "seasons" ->
            EnterName([tk EXCEPT !.found = FindSeasons(SeasonsInput(page_text))])

\* The loop of line 128 left at the first candidate that gives no name
\* (a break in place of the continue of line 164).
NextCandidateBreaks(tk) == NameReturns(tk, FallbackName(self))

\* The loop of line 128 goes on after candidate i: the next query, or the
\* fallback of lines 167-169.
NextCandidate(tk) ==
    IF tk.i < Len(names_to_try(self))
    THEN SendQuery(tk, tk.i + 1)
    ELSE NameReturns(tk, FallbackName(self))

\* The bookkeeping every step of task t shares.
Track(t, tk) ==
    /\ task' = [task EXCEPT ![t] = tk]
    /\ nQuery' = nQuery + (Len(tk.queried)
                           - Len(IF Active(task[t]) THEN task[t].queried ELSE <<>>))
    /\ firstName' =
          IF ~firstName.set /\ tk.pc = "done" /\ ~tk.raised
             /\ tk.op \in {"seasons", "get_name_with_year"}
          THEN [set |-> TRUE, full |-> tk.full, nq |-> nQuery']
          ELSE firstName

Init ==
    /\ given \in {<<a, PeerArgs>> : a \in EntityArgs}
    /\ self = Construct(given[1])
    /\ peer = CachedPeer
    /\ matching = NotMatching
    /\ _page = PyNone
    /\ _name_with_year = PyNone
    /\ task = [t \in Tasks |-> Idle]
    /\ calls = 0
    /\ gets = <<>>
    /\ nQuery = 0
    /\ firstName = [set |-> FALSE, full |-> PyNone, nq |-> 0]

\* Task t calls op and runs it to its first await: page() returns the
\* cache or sends the GET (lines 60-63); get_name_with_year() returns the
\* cache or sends the first query.
Call(t, op) ==
    /\ ~Active(task[t])
    /\ calls < MaxCalls
    /\ calls' = calls + 1
    /\ LET tk == [Idle EXCEPT !.op = op]
       IN  IF op = "get_name_with_year"
           THEN /\ Track(t, EnterName(tk))
                /\ UNCHANGED gets
           ELSE IF PageIsCached(_page)
           THEN /\ Track(t, AfterPage(tk, _page.v))
                /\ UNCHANGED gets
           ELSE /\ Track(t, [tk EXCEPT !.pc = "await_get"])
                /\ gets' = Append(gets, [by |-> t, out |-> "pending"])
    /\ UNCHANGED <<self, _page, _name_with_year, given, peer, matching>>

\* The outcome of the awaited GET kind: "ok", "fail" or "raise".
OutcomeName(r) ==
    IF r.kind = "raise" THEN "raise" ELSE IF r.is_success THEN "ok" ELSE "fail"

\* client.get(self.url) ends for task t (lines 63-70): an exception leaves
\* page() and the operation that awaited it; a response is cached and
\* page() returns it.
GetReturns(t, r) ==
    /\ task[t].pc = "await_get"
    /\ gets' = [n \in 1..Len(gets) |->
                   IF gets[n].by = t /\ gets[n].out = "pending"
                   THEN [gets[n] EXCEPT !.out = OutcomeName(r)] ELSE gets[n]]
    /\ IF r.kind = "raise"
       THEN /\ Track(t, Raised(task[t]))
            /\ UNCHANGED _page
       ELSE /\ _page' = PageOfResponse(r)
            /\ Track(t, AfterPage(task[t], _page'.v))
    /\ UNCHANGED <<self, _name_with_year, calls, given, peer, matching>>

\* The metadata source answers the query of task t (lines 134-137).
QueryAnswers(t, o) ==
    /\ task[t].pc = "await_query"
    /\ Track(t, [task[t] EXCEPT !.pc = "answered", !.resp = o])
    /\ UNCHANGED <<self, _page, _name_with_year, calls, gets, given, peer, matching>>

\* Task t handles the answer in hand (lines 135-164): on a matching record
\* it caches the name and returns; on anything else the loop goes on.
HandleAnswer(t) ==
    /\ task[t].pc = "answered"
    /\ LET tk == task[t]
           name_to_search == names_to_try(self)[tk.i]
       IN  IF AnswerReturns(name_to_search, tk.resp)
           THEN LET anime == tk.resp.animes[ScanAnimes(name_to_search, tk.resp.animes)]
                IN  /\ _name_with_year' = NameFromAnime(anime)
                    /\ Track(t, NameReturns([tk EXCEPT !.matched = TRUE],
                                            _name_with_year'))
           ELSE LET seen == [tk EXCEPT !.errs = @ + (IF tk.resp.kind = "records"
                                                     THEN 0 ELSE 1)]
                    next == NextCandidate(seen)
                IN  /\ _name_with_year' = IF next.pc = "done" THEN next.full
                                          ELSE _name_with_year
                    /\ Track(t, next)
    /\ UNCHANGED <<self, _page, calls, gets, given, peer, matching>>

\* The calls started in one behaviour of interleaved tasks.
MaxOverlappingCalls == 2

\* The operations the interleaved tasks call.
OverlappingOps == {"page", "seasons", "get_name_with_year"}

\* The records of an answer to an interleaved task.
MaxOverlappingRecords == 1

OverlappingOutcomes ==
    { o \in QueryOutcomes :
        o.kind = "records" => Len(o.animes) <= MaxOverlappingRecords }

\* A call that may start while another task's call is suspended.
OverlappingCall(t, op) ==
    /\ calls < MaxOverlappingCalls
    /\ Call(t, op)

\* Two tasks whose calls interleave at the awaits.
Next ==
    \/ \E t \in Tasks, op \in OverlappingOps : OverlappingCall(t, op)
    \/ \E t \in Tasks, r \in GetOutcomes : GetReturns(t, r)
    \/ \E t \in Tasks, o \in OverlappingOutcomes : QueryAnswers(t, o)
    \/ \E t \in Tasks : HandleAnswer(t)

Spec == Init /\ [][Next]_vars

\* One task that awaits each call before it starts the next: the calls of
\* the entity do not overlap.
SeqNext ==
    \/ \E op \in Ops : Call(1, op)
    \/ \E r \in GetOutcomes : GetReturns(1, r)
    \/ \E o \in QueryOutcomes : QueryAnswers(1, o)
    \/ HandleAnswer(1)

SeqSpec == Init /\ [][SeqNext]_vars

(***************************************************************************)
(* Two entities of one process: construction, comparison and the caches    *)
(* each of them fills on its own.                                          *)
(***************************************************************************)
UrlOther == <<"h", ":", "/", "/", "s", "/", "c", "/", "x", "/">>

CtorArgs ==
    { Args(url, name, alternative_names) :
        url \in {UrlSlash, UrlNoSlash, UrlOther},
        name \in {<<>>, <<"O", "p">>},
        alternative_names \in {<<>>, << <<"x", " ", "z">> >>} }

\* Two entities just constructed.
CtorInit ==
    /\ given \in CtorArgs \X CtorArgs
    /\ self = Construct(given[1])
    /\ peer = [entity |-> Construct(given[2]), page |-> PyNone, name_with_year |-> PyNone]
    /\ matching = NotMatching
    /\ _page = PyNone
    /\ _name_with_year = PyNone
    /\ task = [t \in Tasks |-> Idle]
    /\ calls = 0
    /\ gets = <<>>
    /\ nQuery = 0
    /\ firstName = [set |-> FALSE, full |-> PyNone, nq |-> 0]

\* The names a resolution of the entity can end with: the name of a
\* matching record or the fallback.
ResolvedNames(entity) ==
    {NameFromAnime(anime) : anime \in {a \in RecordPool : Truthy(a.title)}}
    \cup {FallbackName(entity)}

\* self.page() runs to its end on the answer r of the site.
SelfPage(r) ==
    /\ ~PageIsCached(_page)
    /\ r.kind = "response"
    /\ _page' = PageOfResponse(r)
    /\ UNCHANGED <<self, _name_with_year, task, calls, gets, nQuery, firstName, given, peer, matching>>

\* self.get_name_with_year() runs to its end and resolves n.
SelfName(n) ==
    /\ ~NameIsCached(_name_with_year)
    /\ _name_with_year' = n
    /\ UNCHANGED <<self, _page, task, calls, gets, nQuery, firstName, given, peer, matching>>

\* The same two operations on the other entity.
PeerPage(r) ==
    /\ ~PageIsCached(peer.page)
    /\ r.kind = "response"
    /\ peer' = [peer EXCEPT !.page = PageOfResponse(r)]
    /\ UNCHANGED <<self, _page, _name_with_year, task, calls, gets, nQuery, firstName, given, matching>>

PeerName(n) ==
    /\ ~NameIsCached(peer.name_with_year)
    /\ peer' = [peer EXCEPT !.name_with_year = n]
    /\ UNCHANGED <<self, _page, _name_with_year, task, calls, gets, nQuery, firstName, given, matching>>

CtorNext ==
    \/ \E r \in GetOutcomes : SelfPage(r)
    \/ \E n \in ResolvedNames(self) : SelfName(n)
    \/ \E r \in GetOutcomes : PeerPage(r)
    \/ \E n \in ResolvedNames(peer.entity) : PeerName(n)

CtorSpec == CtorInit /\ [][CtorNext]_vars

(***************************************************************************)
(* The comparison of one record with one name (lines 146-148)              *)
(***************************************************************************)
\* The longest title compared.
MaxTitleLen == 2

TitleChars == {"o", "P", "_", "!", " "}

TitleStrings == UNION {[1..n -> TitleChars] : n \in 0..MaxTitleLen}

\* What anime.get("title...") gives: None or a str.
TitleValues == {PyNone} \cup {PyStr(s) : s \in TitleStrings}

FewTitleValues == {PyNone, PyStr(<<>>), PyStr(<<"o", "p">>)}

MatchedAnimes ==
    { Anime(title, english, japanese, PyNone, PyNone) :
        title \in TitleValues, english \in FewTitleValues, japanese \in FewTitleValues }

\* The three titles in the order the condition of line 146 reads them.
TitleKeys == <<"title", "title_english", "title_japanese">>

MatchInit ==
    /\ given = <<Args(UrlSlash, <<>>, <<>>), PeerArgs>>
    /\ self = Construct(given[1])
    /\ peer = CachedPeer
    /\ _page = PyNone
    /\ _name_with_year = PyNone
    /\ task = [t \in Tasks |-> Idle]
    /\ calls = 0
    /\ gets = <<>>
    /\ nQuery = 0
    /\ firstName = [set |-> FALSE, full |-> PyNone, nq |-> 0]
    /\ matching \in [name_to_search : TitleStrings, anime : MatchedAnimes,
                     i : {1}, done : {FALSE}, result : {FALSE}]

\* One operand of the condition of lines 146-148: the or stops at the first
\* title that matches.
MatchTitle ==
    /\ ~matching.done
    /\ LET hit == _titles_match(matching.name_to_search,
                                matching.anime[TitleKeys[matching.i]])
       IN  matching' =
               IF hit THEN [matching EXCEPT !.done = TRUE, !.result = TRUE]
               ELSE IF matching.i = Len(TitleKeys) THEN [matching EXCEPT !.done = TRUE]
               ELSE [matching EXCEPT !.i = @ + 1]
    /\ UNCHANGED <<self, _page, _name_with_year, task, calls, gets, nQuery, firstName,
                   given, peer>>

MatchNext == MatchTitle

MatchSpec == MatchInit /\ [][MatchNext]_vars

(***************************************************************************)
(* Properties                                                              *)
(***************************************************************************)
EmptyStr == PyStr(<<>>)

\* The calls of page() that have ended.
EndedPageCalls == {t \in Tasks : task[t].pc = "done" /\ task[t].op = "page"}

\* C1: in a sequence of non-overlapping calls whose first GET returns a
\* response, one GET of the entity's URL is issued in all, and every
\* page() that has ended returned the memoized body.
C1_FetchOnce ==
    (gets # <<>> /\ gets[1].out \in {"ok", "fail"}) =>
        /\ Len(gets) = 1
        /\ _page # PyNone
        /\ \A t \in EndedPageCalls : ~task[t].raised /\ task[t].ret = _page

\* A third call has returned a non-empty page that one GET fetched.
C1_Witness ==
    /\ calls = 3
    /\ Len(gets) = 1 /\ gets[1].out = "ok"
    /\ \E t \in EndedPageCalls : task[t].ret = _page /\ _page.v # <<>>

\* C2: when the first GET returns a non-success response, page() returns
\* the empty string without raising, the cache holds the empty string, and
\* no later call issues another GET.
C2_FailureIsCachedEmpty ==
    (gets # <<>> /\ gets[1].out = "fail") =>
        /\ _page = EmptyStr
        /\ Len(gets) = 1
        /\ \A t \in EndedPageCalls : ~task[t].raised /\ task[t].ret = EmptyStr

\* A later page() has returned after the first GET failed.
C2_Witness ==
    /\ calls >= 2
    /\ gets # <<>> /\ gets[1].out = "fail"
    /\ EndedPageCalls # {}

\* C3: when the GET raises a transport error, page() does not raise: it
\* returns the empty string and the cache holds the empty string.
C3_TransportErrorIsCachedEmpty ==
    (gets # <<>> /\ gets[Len(gets)].out = "raise") =>
        /\ _page = EmptyStr
        /\ \A t \in EndedPageCalls : ~task[t].raised /\ task[t].ret = EmptyStr

\* C4: whatever the interleaving of the calls, one GET of the entity's URL
\* is issued in all (none of them raising), and every page() that has ended
\* returned the result of that fetch.
C4_SingleFlight ==
    (\A n \in 1..Len(gets) : gets[n].out # "raise") =>
        /\ Len(gets) <= 1
        /\ \A t \in EndedPageCalls : task[t].ret = _page

\* C5: each of the two caches, once set, keeps its value.
C5_CachesSetOnce ==
    [][/\ _page # PyNone => _page' = _page
       /\ _name_with_year # PyNone => _name_with_year' = _name_with_year]_vars

\* The calls of get_name_with_year() that have ended after running the
\* loop of line 128.
EndedResolutions ==
    {t \in Tasks : /\ task[t].pc = "done"
                   /\ task[t].op = "get_name_with_year"
                   /\ task[t].queried # <<>>}

\* C6: once a first get_name_with_year() has returned, every later call
\* returns the same value and sends no query.
C6_ResolutionIsCached ==
    firstName.set =>
        /\ nQuery = firstName.nq
        /\ \A t \in Tasks :
              (task[t].pc = "done" /\ task[t].op \in {"seasons", "get_name_with_year"}
               /\ ~task[t].raised) => task[t].full = firstName.full

\* C7: when no candidate yields a match, get_name_with_year() returns the
\* raw name kept from before an alternate name became the display name.
C7_FallbackIsRawName ==
    \A t \in EndedResolutions :
        ~task[t].matched => task[t].ret = PyStr(self.raw_name)

\* The candidates in the order of the claim: the primary name, then the
\* alternate names in list order.
Candidates == <<self.name>> \o self.alternative_names

\* The positions of the records of an answer that match the name.
MatchingRecords(name, resp) ==
    IF resp.kind # "records" THEN {}
    ELSE {j \in 1..Len(resp.animes) : AnimeMatches(name, resp.animes[j])}

\* The first of a non-empty set of positions.
First(S) == CHOOSE j \in S : \A k \in S : j <= k

\* Task t handles its answer in this step.
Handles(t) == task[t].pc = "answered" /\ task'[t] # task[t]

\* C8: a failed query (transport error, status other than 200, malformed
\* payload) never ends the resolution with an exception or ahead of the
\* candidates left: the next candidate is queried, or, none being left,
\* the fallback name is returned; and a match after failed queries gives
\* the name built from the matching record.
C8_FailedQueryGoesOn ==
    [][\A t \in Tasks :
          /\ (Handles(t) /\ task[t].resp.kind \in {"raise", "status", "malformed"}) =>
                /\ ~task'[t].raised
                /\ IF task[t].i < Len(Candidates)
                   THEN /\ task'[t].pc = "await_query"
                        /\ task'[t].queried =
                              Append(task[t].queried, QueryOf(Candidates[task[t].i + 1]))
                        /\ _name_with_year' = _name_with_year
                   ELSE /\ task'[t].pc = "done"
                        /\ task'[t].full = PyStr(self.name)
                        /\ _name_with_year' = PyStr(self.name)
          /\ (Handles(t) /\ task[t].errs > 0
              /\ MatchingRecords(Candidates[task[t].i], task[t].resp) # {}) =>
                /\ task'[t].pc = "done" /\ ~task'[t].raised
                /\ \E j \in MatchingRecords(Candidates[task[t].i], task[t].resp) :
                      task'[t].full = NameFromAnime(task[t].resp.animes[j])]_vars

\* A resolution whose first queries failed has returned a name built from
\* a record of a later candidate.
C8_Witness ==
    \E t \in EndedResolutions :
        /\ task[t].errs >= 2
        /\ task[t].matched
        /\ Len(task[t].queried) = 3
        /\ task[t].ret # PyStr(self.name)

\* C9: the candidates are queried in order, the primary name first; the
\* first matching record of the first candidate that has one gives the
\* result, and no query follows it.
C9_FirstMatchWins ==
    [][\A t \in Tasks :
          /\ (task'[t].queried # task[t].queried /\ task'[t].queried # <<>>) =>
                LET n == Len(task'[t].queried)
                IN  /\ n <= Len(Candidates)
                    /\ task'[t].queried[n] = QueryOf(Candidates[n])
                    /\ SubSeq(task'[t].queried, 1, n - 1) =
                          (IF Active(task[t]) THEN task[t].queried ELSE <<>>)
                    /\ n > 1 => /\ Handles(t)
                                /\ MatchingRecords(Candidates[n - 1], task[t].resp) = {}
          /\ Handles(t) =>
                LET found == MatchingRecords(Candidates[task[t].i], task[t].resp)
                IN  IF found # {}
                    THEN /\ task'[t].pc = "done"
                         /\ task'[t].queried = task[t].queried
                         /\ task'[t].full = NameFromAnime(task[t].resp.animes[First(found)])
                         /\ _name_with_year' = task'[t].full
                    ELSE ~task'[t].matched]_vars

\* A resolution has returned the name of a record matched by its second
\* candidate, with a candidate left unqueried.
C9_Witness ==
    \E t \in EndedResolutions :
        /\ task[t].matched
        /\ Len(task[t].queried) = 2
        /\ Len(Candidates) = 3
        /\ task[t].ret = _name_with_year

\* The operations that read the page and return what they extract from it.
EndedExtractions ==
    {t \in Tasks : task[t].pc = "done" /\ task[t].op \in PageOps \ {"page"}}

\* C10: when the page fetch fails, seasons() returns an empty sequence and
\* advancement(), correspondence() and synopsis() return the empty string.
C10_FailedFetchExtractsNothing ==
    (gets # <<>> /\ \A n \in 1..Len(gets) : gets[n].out \in {"fail", "raise"}) =>
        \A t \in EndedExtractions :
            /\ ~task[t].raised
            /\ task[t].ret = IF task[t].op = "seasons" THEN PyList(<<>>) ELSE EmptyStr

\* The calls of seasons() that have returned.
ReturnedSeasons ==
    {t \in Tasks : task[t].pc = "done" /\ task[t].op = "seasons" /\ ~task[t].raised}

\* s ends with the marker m after at least one other character.
EndsWith(s, m) == Len(s) > Len(m) /\ SubSeq(s, Len(s) - Len(m) + 1, Len(s)) = m

\* The positions in a body of the declarations of the shape
\* panneauAnime("<name>", "<link><vostfr|vf>"); with a non-empty link.
SeasonDeclarations(body) ==
    {i \in 1..Len(body) :
        body[i].k = "decl" /\ (EndsWith(body[i].arg, Vostfr) \/ EndsWith(body[i].arg, Vf))}

\* The n-th position of a set of positions.
Nth(S, n) == CHOOSE j \in S : Cardinality({k \in S : k < j}) = n - 1

\* The argument of a season declaration without its language marker.
WithoutMarker(arg) ==
    IF EndsWith(arg, Vostfr) THEN SubSeq(arg, 1, Len(arg) - Len(Vostfr))
    ELSE SubSeq(arg, 1, Len(arg) - Len(Vf))

\* C11: seasons() returns one Season per season declaration of the cleaned
\* page body, in document order, the i-th with the i-th declaration's name
\* and the entity's URL followed by its link without the language marker;
\* the declarations inside stripped comments give no record.
C11_SeasonsInDocumentOrder ==
    \A t \in ReturnedSeasons :
        LET cleaned == remove_some_js_comments(_page.v)
            decls == SeasonDeclarations(cleaned)
            seasons == task[t].ret.v
        IN  /\ Len(seasons) = Cardinality(decls)
            /\ \A i \in 1..Len(seasons) :
                  /\ seasons[i].name = cleaned[Nth(decls, i)].name
                  /\ seasons[i].url = self.url \o WithoutMarker(cleaned[Nth(decls, i)].arg)

\* seasons() has returned two records from a page that has a third
\* declaration inside a comment.
C11_Witness ==
    \E t \in ReturnedSeasons :
        /\ Len(task[t].ret.v) = 2
        /\ Cardinality(SeasonDeclarations(_page.v)) = 3
        /\ task[t].ret.v[2].url = self.url \o Link2

\* The calls of advancement(), correspondence() and synopsis() that have
\* returned.
ReturnedCaptures ==
    {t \in Tasks : /\ task[t].pc = "done" /\ ~task[t].raised
                   /\ task[t].op \in {"advancement", "correspondence", "synopsis"}}

\* The value of the first field of a body with the label, "" without one.
FirstLabelled(label, body) ==
    LET at == {i \in 1..Len(body) : body[i].k = "field" /\ body[i].label = label}
    IN  IF at = {} THEN EmptyStr ELSE PyStr(body[First(at)].value)

Canonical(url) == IF url[Len(url)] = "/" THEN url ELSE url \o <<"/">>

\* The two entities as the values a comparison receives.
SelfValue == PyCatalogue(self, _page, _name_with_year)

PeerValue == PyCatalogue(peer.entity, peer.page, peer.name_with_year)

\* C13: two entities compare equal, in either order, exactly when the
\* canonical forms of the URLs they were constructed with are equal,
\* whatever their names and alternate names and whatever their caches
\* hold, and an entity never equals a string or None.
C13_EqualIffSameCanonicalUrl ==
    /\ __eq__(self, PeerValue) <=> (Canonical(given[1].url) = Canonical(given[2].url))
    /\ __eq__(peer.entity, SelfValue) <=> (Canonical(given[1].url) = Canonical(given[2].url))
    /\ ~__eq__(self, PyStr(self.url))
    /\ ~__eq__(self, PyNone)

\* C13's case: equal entities built from one URL, written with and without
\* the separator, with different names and alternates, the caches of one
\* of them populated.
C13_Witness ==
    /\ given[1].url = UrlNoSlash /\ given[2].url = UrlSlash
    /\ self.name # peer.entity.name
    /\ given[1].alternative_names # given[2].alternative_names
    /\ _page # PyNone /\ _name_with_year # PyNone
    /\ peer.page = PyNone /\ peer.name_with_year = PyNone
    /\ __eq__(self, PeerValue)

\* The last segment of the path of a URL, the URL taken in canonical form.
Slug(url) == LET parts == Split(Canonical(url), "/") IN parts[Len(parts) - 1]

\* C14: in every state the canonical URL of the entity ends with the
\* separator and is the URL it was constructed with, with one separator
\* appended when that URL lacked it; constructing again from the canonical
\* URL gives the same canonical URL.
C14_UrlEndsWithSeparator ==
    /\ self.url[Len(self.url)] = "/"
    /\ self.url = IF given[1].url[Len(given[1].url)] = "/"
                  THEN given[1].url ELSE given[1].url \o <<"/">>
    /\ Catalogue(self.url, <<>>, <<>>).url = self.url

\* C14's case: an entity constructed without the separator, after a whole
\* seasons() call on it.
C14_Witness ==
    /\ given[1].url = UrlNoSlash
    /\ task[1].op = "seasons" /\ task[1].pc = "done" /\ ~task[1].raised
    /\ task[1].ret # PyList(<<>>)
    /\ self.url = UrlSlash

\* C15: an entity constructed with no name and no alternate names has the
\* slug of its URL as display name and as raw name, the URL given with or
\* without the trailing separator.
C15_NameIsSlug ==
    (given[1].name = <<>> /\ given[1].alternative_names = <<>>)
        => (self.name = Slug(given[1].url) /\ self.raw_name = Slug(given[1].url))


\* A letter or a digit.
Alphanumeric(c) == IsWord(c) /\ c # "_"

\* Lowercased, trimmed, then without the characters that are neither
\* alphanumeric nor whitespace.
NormalizedStrict(s) ==
    SelectSeq(Strip(Lower(s)), LAMBDA c : Alphanumeric(c) \/ IsSpace(c))

\* The same, the underscore kept as well.
NormalizedKeepingUnderscore(s) ==
    SelectSeq(Strip(Lower(s)), LAMBDA c : Alphanumeric(c) \/ c = "_" \/ IsSpace(c))

\* Equal, or either one a substring of the other.
Contained(a, b) == a = b \/ IsSubstring(a, b) \/ IsSubstring(b, a)

\* The text of a title variant, an absent one read as empty.
TitleText(v) == IF v.t = "str" THEN v.v ELSE <<>>

\* C16 as stated: the record matches exactly when, for one of its three
\* title variants, empty and absent ones included, the normalized name and
\* the normalized variant are equal or contained in one another, the
\* normalization removing everything but alphanumerics and whitespace.
C16_MatchIffVariantContained ==
    matching.done =>
        (matching.result <=>
            \E k \in 1..Len(TitleKeys) :
                Contained(NormalizedStrict(matching.name_to_search),
                          NormalizedStrict(TitleText(matching.anime[TitleKeys[k]]))))

\* C16 amended: the record matches exactly when one of its three title
\* variants is present and non-empty and the normalized name and the
\* normalized variant are equal or contained in one another, the
\* normalization keeping alphanumerics, underscores and whitespace.
C16_MatchIffNonEmptyVariantContained ==
    matching.done =>
        (matching.result <=>
            \E k \in 1..Len(TitleKeys) :
                /\ Truthy(matching.anime[TitleKeys[k]])
                /\ Contained(NormalizedKeepingUnderscore(matching.name_to_search),
                             NormalizedKeepingUnderscore(matching.anime[TitleKeys[k]].v)))

\* C16's case: a name matched through the third variant after an empty and
\* an absent one, by lowercasing, removal and containment.
C16_Witness ==
    /\ matching.done /\ matching.result
    /\ matching.name_to_search = <<"P", "!">>
    /\ matching.anime.title = PyStr(<<>>)
    /\ matching.anime.title_english = PyNone
    /\ matching.anime.title_japanese = PyStr(<<"o", "p">>)


\* The year of a record: its year field when it has one, otherwise the
\* first four characters of its start date when it has one, otherwise none.
YearOf(anime) ==
    IF anime.year # PyNone THEN IntToStr(anime.year.v)
    ELSE IF anime.aired_from # PyNone
         THEN SubSeq(anime.aired_from.v, 1, 4)
         ELSE <<>>

\* "<title> (<year>)" with a year, the title alone without.
Composed(anime) ==
    IF YearOf(anime) = <<>> THEN anime.title
    ELSE PyStr(TitleText(anime.title) \o <<" ", "(">> \o YearOf(anime) \o <<")">>)

\* C17: the resolution that handles an answer with a matching record
\* returns and caches the title of the first matching record followed by
\* " (<year>)", the year being the record's year field, or else the first
\* four characters of its start date, and the title alone when the record
\* has neither.
C17_NameIsTitleAndYear ==
    [][\A t \in Tasks :
          (Handles(t) /\ MatchingRecords(Candidates[task[t].i], task[t].resp) # {}) =>
              LET found == MatchingRecords(Candidates[task[t].i], task[t].resp)
                  anime == task[t].resp.animes[First(found)]
              IN  /\ task'[t].pc = "done" /\ ~task'[t].raised
                  /\ task'[t].full = Composed(anime)
                  /\ _name_with_year' = Composed(anime)]_vars

\* C17's case: a resolution returned "Op (2002)", from a record with the
\* year field 2002 and a start date in 2001.
C17_Witness ==
    \E t \in EndedResolutions :
        /\ task[t].matched
        /\ task[t].ret = PyStr(<<"O", "p", " ", "(", "2", "0", "0", "2", ")">>)
        /\ _name_with_year = task[t].ret


\* Task t takes a step of a call of one of the operations ops: its
\* position in the call, or the call itself, changes.
StepsIn(t, ops) ==
    /\ task'[t].op \in ops
    /\ [task'[t] EXCEPT !.ret = PyNone] # [task[t] EXCEPT !.ret = PyNone]

\* C18: no step changes the entity as it was constructed (canonical URL,
\* site URL, display name, raw name, alternate names) or the other entity
\* and its caches; a step of page(), advancement(), correspondence() or
\* synopsis() leaves the resolved-name cache alone and sends no query; a
\* step of get_name_with_year() leaves the page cache alone and issues no
\* GET.
C18_OnlyTheCachesChange ==
    [][/\ self' = self
       /\ self' = Construct(given'[1])
       /\ peer' = peer
       /\ \A t \in Tasks :
             /\ StepsIn(t, {"page", "advancement", "correspondence", "synopsis"}) =>
                   /\ _name_with_year' = _name_with_year
                   /\ nQuery' = nQuery
                   /\ task'[t].queried = <<>>
             /\ StepsIn(t, {"get_name_with_year"}) =>
                   /\ _page' = _page
                   /\ gets' = gets]_vars

\* C18's case: with both caches empty, a synopsis() call has fetched and
\* cached the page and returned, then a get_name_with_year() call has
\* resolved and cached a name; the page cache still holds what synopsis()
\* fetched and one GET was issued.
C18_Witness ==
    /\ calls = 2 /\ Len(gets) = 1 /\ gets[1].out = "ok"
    /\ _page # PyNone /\ _page # EmptyStr
    /\ task[1].op = "get_name_with_year" /\ task[1].pc = "done"
    /\ task[1].queried # <<>>
    /\ _name_with_year = task[1].ret /\ _name_with_year # PyNone
    /\ peer = CachedPeer


\* C19: a seasons() call that returns has resolved a name, its page
\* declaring seasons or not; every Season record it returns carries that
\* name, which is the cached name and the name every earlier call
\* returned; and once a first call has returned, the steps of a seasons()
\* call send no query.
C19_SeasonsResolveOnce ==
    [][\A t \in Tasks :
          StepsIn(t, {"seasons"}) =>
              /\ firstName.set => nQuery' = nQuery
              /\ (task'[t].pc = "done" /\ ~task'[t].raised) =>
                    /\ task'[t].full # PyNone
                    /\ task'[t].full = _name_with_year'
                    /\ task'[t].full = firstName'.full
                    /\ \A k \in 1..Len(task'[t].ret.v) :
                          task'[t].ret.v[k].serie_name = task'[t].full]_vars


\* C20: the queries one resolution has sent are for pairwise different
\* names.
C20_OneQueryPerName ==
    \A t \in Tasks :
        \A m, n \in 1..Len(task[t].queried) :
            m # n => task[t].queried[m] # task[t].queried[n]

====
